---- MODULE Spec2Model ----
(***************************************************************************)
(* Range adaptation of psycopg3 (psycopg3/types/range.py): the Range value *)
(* type, the text dumper and loader of ranges, the oid selection of the    *)
(* dumper ("upgrade") and the RangeInfo catalog lookup and registration.   *)
(*                                                                         *)
(* Bytes and str objects are sequences of one-character strings.  An       *)
(* element of a range (the T of Range[T]) and None are records             *)
(* [t, n, s]: t is the Python type, n the number of an int or a date, s    *)
(* the characters of a str.                                                *)
(***************************************************************************)
EXTENDS Integers, Sequences, FiniteSets, TLC

VARIABLES
    etype,      \* the element type T of the Range[T] objects of this run
    rng,        \* the Range object the program holds (NoObj before any)
    wire,       \* the bytes in flight between dumper, server and loader
    ret,        \* what the last operation returned or raised
    catalog,    \* oids.builtins: element oid -> oid of its builtin range
    calls,      \* the RangeInfo.fetch / fetch_async calls in progress
    dumpers,    \* the adaptation context: Python type -> its text dumper
    returned,   \* the RangeInfo objects resolution calls have returned
    registry    \* context -> oid -> loader class registered for it

vars == <<etype, rng, wire, ret, catalog, dumpers, calls, returned, registry>>

(***************************************************************************)
(* Bounds of the model.                                                    *)
(***************************************************************************)
MaxInt == 1          \* int elements are -1 .. MaxInt
MaxInterior == 5     \* longest interior of a received payload
MaxRows == 2         \* most rows the catalog query returns

(***************************************************************************)
(* Python values.                                                          *)
(***************************************************************************)
None == [t |-> "None", n |-> 0, s |-> <<>>]
IntV(i) == [t |-> "int", n |-> i, s |-> <<>>]
TextV(str) == [t |-> "str", n |-> 0, s |-> str]
DateV(d) == [t |-> "date", n |-> d, s |-> <<>>]

NoObj == [noobj |-> TRUE]

\* code points of the characters the model uses (Python compares str and
\* bytes by code point)
Ord(c) ==
    CASE c = " " -> 32 [] c = "\"" -> 34 [] c = "(" -> 40 [] c = ")" -> 41
      [] c = "," -> 44 [] c = "-" -> 45 [] c = "0" -> 48 [] c = "1" -> 49
      [] c = "2" -> 50 [] c = "3" -> 51 [] c = "4" -> 52 [] c = "5" -> 53
      [] c = "6" -> 54 [] c = "7" -> 55 [] c = "8" -> 56 [] c = "9" -> 57
      [] c = "[" -> 91 [] c = "\\" -> 92 [] c = "]" -> 93 [] c = "a" -> 97
      [] c = "b" -> 98 [] c = "e" -> 101 [] c = "m" -> 109 [] c = "p" -> 112
      [] c = "t" -> 116 [] c = "y" -> 121

\* a < b on str: lexicographic by code point
RECURSIVE StrLt(_, _)
StrLt(a, b) ==
    IF b = <<>> THEN FALSE
    ELSE IF a = <<>> THEN TRUE
    ELSE IF Ord(Head(a)) # Ord(Head(b)) THEN Ord(Head(a)) < Ord(Head(b))
    ELSE StrLt(Tail(a), Tail(b))

\* x < y on two elements of one type
ElemLt(x, y) ==
    IF x.t = "str" THEN StrLt(x.s, y.s) ELSE x.n < y.n

ElemLe(x, y) == x = y \/ ElemLt(x, y)

IntVals == {IntV(i) : i \in -1..MaxInt}
TextVals == {TextV(<<>>), TextV(<<"a">>), TextV(<<",", "\"">>),
             TextV(<<"\\", ")", " ", "[">>)}
DateVals == {DateV(1), DateV(2)}

ElemTypes == {"int", "str", "date"}

ElemsOf(ty) ==
    CASE ty = "int" -> IntVals
      [] ty = "str" -> TextVals
      [] ty = "date" -> DateVals

(***************************************************************************)
(* class Range                                                             *)
(***************************************************************************)
ValidBounds == {<<"[", ")">>, <<"(", "]">>, <<"(", ")">>, <<"[", "]">>}

\* bounds arguments a caller may pass: the four flags and some that are not
BoundsArgs == ValidBounds \cup {<<>>, <<"[">>, <<")", "(">>}

\* Range.__init__ with the bug of keeping the lower and upper passed along
\* with empty=True
Range_init_keeps_args(lower, upper, bounds, empty) ==
    IF ~empty /\ bounds \notin ValidBounds
    THEN [exc |-> "ValueError", obj |-> NoObj]
    ELSE [exc |-> "",
          obj |-> [lower |-> lower, upper |-> upper,
                   bounds |-> IF empty THEN <<>> ELSE bounds]]

\* Range.__init__: [exc, obj], obj the object constructed (NoObj if it raised)
Range_init(lower, upper, bounds, empty) ==
    IF ~empty
    THEN IF bounds \notin ValidBounds
         THEN [exc |-> "ValueError", obj |-> NoObj]
         ELSE [exc |-> "",
               obj |-> [lower |-> lower, upper |-> upper, bounds |-> bounds]]
    ELSE [exc |-> "", obj |-> [lower |-> None, upper |-> None, bounds |-> <<>>]]

Range_lower(r) == r.lower
Range_upper(r) == r.upper
Range_isempty(r) == r.bounds = <<>>

Range_lower_inf(r) ==
    IF r.bounds = <<>> THEN FALSE ELSE r.lower = None

Range_upper_inf(r) ==
    IF r.bounds = <<>> THEN FALSE ELSE r.upper = None

Range_lower_inc(r) ==
    IF r.bounds = <<>> \/ r.lower = None THEN FALSE ELSE r.bounds[1] = "["

Range_upper_inc(r) ==
    IF r.bounds = <<>> \/ r.upper = None THEN FALSE ELSE r.bounds[2] = "]"

\* Range.__contains__ with the bug of an exclusive lower bound tested as an
\* inclusive one (x < lower where the code has x <= lower)
Range_contains_lower_slip(r, x) ==
    IF r.bounds = <<>> THEN FALSE
    ELSE IF r.lower # None /\ ElemLt(x, r.lower) THEN FALSE
    ELSE IF r.upper # None /\ r.bounds[2] = "]" /\ ElemLt(r.upper, x) THEN FALSE
    ELSE IF r.upper # None /\ r.bounds[2] # "]" /\ ElemLe(r.upper, x) THEN FALSE
    ELSE TRUE

\* Range.__contains__
Range_contains(r, x) ==
    IF r.bounds = <<>> THEN FALSE
    ELSE IF r.lower # None /\ r.bounds[1] = "[" /\ ElemLt(x, r.lower) THEN FALSE
    ELSE IF r.lower # None /\ r.bounds[1] # "[" /\ ElemLe(x, r.lower) THEN FALSE
    ELSE IF r.upper # None /\ r.bounds[2] = "]" /\ ElemLt(r.upper, x) THEN FALSE
    ELSE IF r.upper # None /\ r.bounds[2] # "]" /\ ElemLe(r.upper, x) THEN FALSE
    ELSE TRUE

Range_bool(r) == r.bounds # <<>>

Range_eq(a, b) ==
    a.lower = b.lower /\ a.upper = b.upper /\ a.bounds = b.bounds

Range_ne(a, b) == ~Range_eq(a, b)

Range_hash(r) == <<r.lower, r.upper, r.bounds>>

\* the round of __lt__ with the bug of testing other_value for None first
\* and answering True (None on the right sorts high instead of low)
LtAttr_none_high(attr, a, b) ==
    IF attr = "bounds"
    THEN IF a.bounds = b.bounds THEN "next"
         ELSE IF StrLt(a.bounds, b.bounds) THEN "True" ELSE "False"
    ELSE LET sv == IF attr = "lower" THEN a.lower ELSE a.upper
             ov == IF attr = "lower" THEN b.lower ELSE b.upper
         IN  IF sv = ov THEN "next"
             ELSE IF ov = None THEN "True"
             ELSE IF sv = None THEN "False"
             ELSE IF ElemLt(sv, ov) THEN "True" ELSE "False"

\* one round of the loop of __lt__ on attribute attr: "next" when the two
\* values are equal, else the value returned
LtAttr(attr, a, b) ==
    IF attr = "bounds"
    THEN IF a.bounds = b.bounds THEN "next"
         ELSE IF StrLt(a.bounds, b.bounds) THEN "True" ELSE "False"
    ELSE LET sv == IF attr = "lower" THEN a.lower ELSE a.upper
             ov == IF attr = "lower" THEN b.lower ELSE b.upper
         IN  IF sv = ov THEN "next"
             ELSE IF sv = None THEN "True"
             ELSE IF ov = None THEN "False"
             ELSE IF ElemLt(sv, ov) THEN "True" ELSE "False"

RECURSIVE LtLoop(_, _, _)
LtLoop(attrs, a, b) ==
    IF attrs = <<>> THEN FALSE
    ELSE LET o == LtAttr(Head(attrs), a, b)
         IN  IF o = "next" THEN LtLoop(Tail(attrs), a, b) ELSE o = "True"

Range_lt(a, b) == LtLoop(<<"lower", "upper", "bounds">>, a, b)

Range_le(a, b) == IF Range_eq(a, b) THEN TRUE ELSE Range_lt(a, b)

Range_gt(a, b) == Range_lt(b, a)

Range_ge(a, b) == IF Range_eq(a, b) THEN TRUE ELSE Range_gt(a, b)

\* __getstate__ / __setstate__: the slots as a mapping, and an object whose
\* slots are set from one (pickle does not call __init__)
Range_getstate(r) == [lower |-> r.lower, upper |-> r.upper, bounds |-> r.bounds]
Range_setstate(state) ==
    [lower |-> state.lower, upper |-> state.upper, bounds |-> state.bounds]

\* the Range[ty] objects the constructor can produce
Bound(ty) == ElemsOf(ty) \cup {None}
RangeValues(ty) ==
    {Range_init(l, u, b, e).obj :
        l \in Bound(ty), u \in Bound(ty), b \in ValidBounds, e \in BOOLEAN}

(***************************************************************************)
(* The element dumpers and loaders the adaptation context resolves         *)
(* (Transformer.get_dumper / get_loader), text format.                     *)
(***************************************************************************)
Digit(d) == CASE d = 0 -> "0" [] d = 1 -> "1" [] d = 2 -> "2" [] d = 3 -> "3"
              [] d = 4 -> "4" [] d = 5 -> "5" [] d = 6 -> "6" [] d = 7 -> "7"
              [] d = 8 -> "8" [] d = 9 -> "9"

Digits == {"0", "1", "2", "3", "4", "5", "6", "7", "8", "9"}
DigitVal(c) == Ord(c) - 48

RECURSIVE NatText(_)
NatText(i) == IF i < 10 THEN <<Digit(i)>> ELSE Append(NatText(i \div 10), Digit(i % 10))

\* str(i).encode()
IntText(i) == IF i < 0 THEN <<"-">> \o NatText(-i) ELSE NatText(i)

RECURSIVE NatValue(_, _)
NatValue(data, acc) ==
    IF data = <<>> THEN acc
    ELSE NatValue(Tail(data), 10 * acc + DigitVal(Head(data)))

AllDigits(data) == data # <<>> /\ \A k \in 1..Len(data) : data[k] \in Digits

\* int(data): [exc, v]
ParseInt(data) ==
    IF AllDigits(data) THEN [exc |-> "", v |-> IntV(NatValue(data, 0))]
    ELSE IF data # <<>> /\ Head(data) = "-" /\ AllDigits(Tail(data))
    THEN [exc |-> "", v |-> IntV(0 - NatValue(Tail(data), 0))]
    ELSE [exc |-> "ValueError", v |-> None]

\* dumper.dump(item) of the dumper of item's type
ElemDump(x) == IF x.t = "int" THEN IntText(x.n) ELSE x.s

\* loader.load(data) of the loader of element type ty: [exc, v]
ElemLoad(ty, data) ==
    IF ty = "int" THEN ParseInt(data) ELSE [exc |-> "", v |-> TextV(data)]

(***************************************************************************)
(* SequenceDumper._dump_sequence and BaseCompositeLoader._parse_record     *)
(* (types/composite.py), which ranges reuse for their two-element payload. *)
(***************************************************************************)
Whitespace == {" "}

\* RangeDumper._re_needs_quotes.search(ad)
NeedsQuotes(ad) ==
    \E k \in 1..Len(ad) :
        ad[k] \in {"\"", ",", "\\", "(", ")", "[", "]"} \cup Whitespace

\* _re_esc.sub(br"\1\1", ad): double every backslash and double quote
RECURSIVE Escape(_)
Escape(ad) ==
    IF ad = <<>> THEN <<>>
    ELSE IF Head(ad) \in {"\\", "\""}
         THEN <<Head(ad), Head(ad)>> \o Escape(Tail(ad))
         ELSE <<Head(ad)>> \o Escape(Tail(ad))

\* the bytes one item adds to parts: its text (quoted if needed), then sep
DumpItem(item, sep) ==
    IF item = None THEN sep
    ELSE LET ad == ElemDump(item)
         IN  (IF ad = <<>> THEN <<"\"", "\"">>
              ELSE IF NeedsQuotes(ad) THEN <<"\"">> \o Escape(ad) \o <<"\"">>
              ELSE ad) \o sep

RECURSIVE DumpItems(_, _)
DumpItems(items, sep) ==
    IF items = <<>> THEN <<>>
    ELSE DumpItem(Head(items), sep) \o DumpItems(Tail(items), sep)

\* _dump_sequence(obj, start, end, sep): the last part, a sep, becomes end
dump_sequence(obj, start, end, sep) ==
    IF obj = <<>> THEN start \o end
    ELSE LET body == DumpItems(obj, sep)
         IN  start \o SubSeq(body, 1, Len(body) - Len(sep)) \o end

\* where the quoted string opened just before index i closes: the regexp
\* " ((?: [^"] | "")*) " takes the longest body of non-quotes and doubled
\* quotes that a quote follows; 0 when there is none
RECURSIVE QuoteEnd(_, _)
QuoteEnd(data, i) ==
    IF i > Len(data) THEN 0
    ELSE IF data[i] # "\"" THEN QuoteEnd(data, i + 1)
    ELSE IF i + 1 <= Len(data) /\ data[i + 1] = "\""
         THEN LET r == QuoteEnd(data, i + 2) IN IF r # 0 THEN r ELSE i
         ELSE i

\* last index of the run [^",)]+ starting at i
RECURSIVE RunEnd(_, _)
RunEnd(data, i) ==
    IF i + 1 <= Len(data) /\ data[i + 1] \notin {"\"", ",", ")"}
    THEN RunEnd(data, i + 1)
    ELSE i

\* _re_tokenize.finditer(data) from index i: the matches, each with the
\* group that matched (g), its text and whether the match ends in a comma
RECURSIVE Tokenize(_, _, _)
Tokenize(data, i, acc) ==
    IF i > Len(data) THEN acc
    ELSE IF data[i] = ","
    THEN Tokenize(data, i + 1, Append(acc, [g |-> 1, text |-> <<",">>, comma |-> TRUE]))
    ELSE IF data[i] = "\""
    THEN LET p == QuoteEnd(data, i + 1)
             c == p # 0 /\ p + 1 <= Len(data) /\ data[p + 1] = ","
         IN  IF p = 0 THEN Tokenize(data, i + 1, acc)
             ELSE Tokenize(data, IF c THEN p + 2 ELSE p + 1,
                      Append(acc, [g |-> 2, text |-> SubSeq(data, i + 1, p - 1),
                                   comma |-> c]))
    ELSE IF data[i] = ")" THEN Tokenize(data, i + 1, acc)
    ELSE LET j == RunEnd(data, i)
             c == j + 1 <= Len(data) /\ data[j + 1] = ","
         IN  Tokenize(data, IF c THEN j + 2 ELSE j + 1,
                      Append(acc, [g |-> 3, text |-> SubSeq(data, i, j), comma |-> c]))

\* _re_undouble.sub(br"\1", s): a doubled quote or backslash becomes one
RECURSIVE Undouble(_)
Undouble(s) ==
    IF s = <<>> THEN <<>>
    ELSE IF Len(s) >= 2 /\ s[1] \in {"\"", "\\"} /\ s[2] = s[1]
         THEN <<s[1]>> \o Undouble(SubSeq(s, 3, Len(s)))
         ELSE <<s[1]>> \o Undouble(Tail(s))

\* a token of a record: absent (NULL) or the bytes of a value
NullToken == [null |-> TRUE, b |-> <<>>]
Token(b) == [null |-> FALSE, b |-> b]

MatchToken(m) ==
    IF m.g = 1 THEN NullToken
    ELSE IF m.g = 2 THEN Token(Undouble(m.text))
    ELSE Token(m.text)

\* _parse_record(data): [exc, toks]; a last match ending in a comma adds a
\* final NULL; with no match at all the final test reads the unbound m
parse_record(data) ==
    LET ms == Tokenize(data, 1, <<>>)
        toks == [k \in 1..Len(ms) |-> MatchToken(ms[k])]
    IN  IF ms = <<>> THEN [exc |-> "UnboundLocalError", toks |-> <<>>]
        ELSE IF ms[Len(ms)].comma
        THEN [exc |-> "", toks |-> Append(toks, NullToken)]
        ELSE [exc |-> "", toks |-> toks]

(***************************************************************************)
(* class RangeDumper: dump                                                 *)
(***************************************************************************)
EmptyLiteral == <<"e", "m", "p", "t", "y">>

\* dump with the bug of reading the flags of _bounds instead of lower_inc
\* and upper_inc
RangeDumper_dump_raw_flags(obj) ==
    IF ~Range_bool(obj) THEN EmptyLiteral
    ELSE dump_sequence(<<Range_lower(obj), Range_upper(obj)>>,
                       IF obj.bounds[1] = "[" THEN <<"[">> ELSE <<"(">>,
                       IF obj.bounds[2] = "]" THEN <<"]">> ELSE <<")">>,
                       <<",">>)

RangeDumper_dump(obj) ==
    IF ~Range_bool(obj) THEN EmptyLiteral
    ELSE dump_sequence(<<Range_lower(obj), Range_upper(obj)>>,
                       IF Range_lower_inc(obj) THEN <<"[">> ELSE <<"(">>,
                       IF Range_upper_inc(obj) THEN <<"]">> ELSE <<")">>,
                       <<",">>)

(***************************************************************************)
(* class RangeLoader: load                                                 *)
(***************************************************************************)
\* the keys of _int2parens
Int2Parens == {"[", "]", "(", ")"}

\* cast(token) if token is not None else None: [exc, v]
CastToken(ty, tok) ==
    IF tok.null THEN [exc |-> "", v |-> None] ELSE ElemLoad(ty, tok.b)

\* min, max = (cast(token) ... for token in ...): the generator is consumed
\* until a third item shows up; [exc, vs]
UnpackTwo(ty, toks) ==
    LET n == IF Len(toks) < 3 THEN Len(toks) ELSE 3
        cs == [k \in 1..n |-> CastToken(ty, toks[k])]
        bad == {k \in 1..n : cs[k].exc # ""}
    IN  IF bad # {}
        THEN [exc |-> cs[CHOOSE k \in bad : \A j \in bad : k <= j].exc, vs |-> <<>>]
        ELSE IF Len(toks) # 2 THEN [exc |-> "ValueError", vs |-> <<>>]
        ELSE [exc |-> "", vs |-> <<cs[1].v, cs[2].v>>]

\* load with the bug of reading the closing flag from the first byte too
RangeLoader_load_first_byte(ty, data) ==
    IF data = EmptyLiteral THEN Range_init(None, None, <<"[", ")">>, TRUE)
    ELSE IF data = <<>> THEN [exc |-> "IndexError", obj |-> NoObj]
    ELSE IF data[1] \notin Int2Parens \/ data[Len(data)] \notin Int2Parens
    THEN [exc |-> "KeyError", obj |-> NoObj]
    ELSE LET bounds == <<data[1], IF data[1] = "[" THEN "]" ELSE ")">>
             rec == parse_record(SubSeq(data, 2, Len(data) - 1))
             two == UnpackTwo(ty, rec.toks)
         IN  IF rec.exc # "" THEN [exc |-> rec.exc, obj |-> NoObj]
             ELSE IF two.exc # "" THEN [exc |-> two.exc, obj |-> NoObj]
             ELSE Range_init(two.vs[1], two.vs[2], bounds, FALSE)

\* RangeLoader.load(data) of a loader whose subtype is ty: [exc, obj]
RangeLoader_load(ty, data) ==
    IF data = EmptyLiteral THEN Range_init(None, None, <<"[", ")">>, TRUE)
    ELSE IF data = <<>> THEN [exc |-> "IndexError", obj |-> NoObj]
    ELSE IF data[1] \notin Int2Parens \/ data[Len(data)] \notin Int2Parens
    THEN [exc |-> "KeyError", obj |-> NoObj]
    ELSE LET bounds == <<data[1], data[Len(data)]>>
             rec == parse_record(SubSeq(data, 2, Len(data) - 1))
             two == UnpackTwo(ty, rec.toks)
         IN  IF rec.exc # "" THEN [exc |-> rec.exc, obj |-> NoObj]
             ELSE IF two.exc # "" THEN [exc |-> two.exc, obj |-> NoObj]
             ELSE Range_init(two.vs[1], two.vs[2], bounds, FALSE)

(***************************************************************************)
(* oids.py: the oids of the builtin types and the ranges over them.        *)
(***************************************************************************)
INVALID_OID == 0

BuiltinOid(name) ==
    CASE name = "int4" -> 23 [] name = "int8" -> 20 [] name = "numeric" -> 1700
      [] name = "text" -> 25 [] name = "date" -> 1082
      [] name = "timestamp" -> 1114 [] name = "timestamptz" -> 1184
      [] name = "int4range" -> 3904 [] name = "int8range" -> 3926
      [] name = "numrange" -> 3906 [] name = "daterange" -> 3912
      [] name = "tsrange" -> 3908 [] name = "tstzrange" -> 3910

\* element oid -> range oid, as builtins.get_range finds them
BuiltinRanges ==
    [o \in {BuiltinOid(n) : n \in {"int4", "int8", "numeric", "date",
                                   "timestamp", "timestamptz"}} |->
        CASE o = 23 -> BuiltinOid("int4range") [] o = 20 -> BuiltinOid("int8range")
          [] o = 1700 -> BuiltinOid("numrange") [] o = 1082 -> BuiltinOid("daterange")
          [] o = 1114 -> BuiltinOid("tsrange") [] o = 1184 -> BuiltinOid("tstzrange")]

\* the catalogs a run may have: the builtin one, one with the integer
\* ranges only, an empty one
Catalogs ==
    {BuiltinRanges,
     [o \in {20, 23} |-> BuiltinRanges[o]],
     [o \in {} |-> 0]}

\* builtins.get_range(sub_oid): the oid found, or none
get_range(cat, sub_oid) ==
    IF sub_oid \in DOMAIN cat THEN [found |-> TRUE, oid |-> cat[sub_oid]]
    ELSE [found |-> FALSE, oid |-> 0]

\* the text dumpers an adaptation context may hold for the element types
DumperSets ==
    {[ty \in ElemTypes |->
        CASE ty = "int" -> [cls |-> "IntDumper", oid |-> io]
          [] ty = "str" -> [cls |-> "StringDumper", oid |-> so]
          [] ty = "date" -> [cls |-> "DateDumper", oid |-> BuiltinOid("date")]] :
     io \in {BuiltinOid("int4"), BuiltinOid("int8")},
     so \in {BuiltinOid("text"), INVALID_OID}}

\* Transformer.get_dumper(item, TEXT)
get_dumper(tx, item) == tx[item.t]

(***************************************************************************)
(* class RangeDumper: get_key and upgrade                                  *)
(***************************************************************************)
\* Dumper._oid, the oid of a dumper that sets none
BaseOid == 0
NoDumper == [nodumper |-> TRUE]

\* a RangeDumper instance as __init__ leaves it
RangeDumper_new(cls, hasctx) ==
    [cls |-> cls, ctx |-> hasctx, oid |-> BaseOid, sub_dumper |-> NoDumper]

RangeDumper_get_item(obj) ==
    LET rv == Range_lower(obj) IN IF rv # None THEN rv ELSE Range_upper(obj)

RangeDumper_get_range_oid(cat, sub_oid) ==
    LET info == get_range(cat, sub_oid)
    IN  IF info.found THEN info.oid ELSE INVALID_OID

\* get_key with the bug of keying on type(sd.cls), which is type for any class
RangeDumper_get_key_type_of_cls(tx, obj) ==
    LET item == RangeDumper_get_item(obj)
    IN  IF item # None THEN <<"Range", "type">>
        ELSE <<"Range">>

RangeDumper_get_key(tx, obj) ==
    LET item == RangeDumper_get_item(obj)
    IN  IF item # None THEN <<"Range", get_dumper(tx, item).cls>>
        ELSE <<"Range">>

\* upgrade with the bug of looking the range oid up for integers too
RangeDumper_upgrade_no_int_case(tx, cat, obj) ==
    LET item == RangeDumper_get_item(obj)
        sd == get_dumper(tx, item)
    IN  IF item = None THEN RangeDumper_new("Range", FALSE)
        ELSE [RangeDumper_new("Range", TRUE) EXCEPT
                 !.sub_dumper = sd,
                 !.oid = RangeDumper_get_range_oid(cat, sd.oid)]

RangeDumper_upgrade(tx, cat, obj) ==
    LET item == RangeDumper_get_item(obj)
        sd == get_dumper(tx, item)
    IN  IF item = None THEN RangeDumper_new("Range", FALSE)
        ELSE [RangeDumper_new("Range", TRUE) EXCEPT
                 !.sub_dumper = sd,
                 !.oid = IF item.t # "int"
                         THEN RangeDumper_get_range_oid(cat, sd.oid)
                         ELSE INVALID_OID]

(***************************************************************************)
(* class RangeInfo                                                         *)
(***************************************************************************)
NoInfo == [noinfo |-> TRUE]

\* RangeInfo(name, oid, array_oid, subtype)
RangeInfo_new(name, oid, array_oid, subtype) ==
    [name |-> name, oid |-> oid, array_oid |-> array_oid, range_subtype |-> subtype]

\* what a call returns or raises: [exc, none, info]
Returns(info) == [exc |-> "", none |-> FALSE, info |-> info]
ReturnsNone == [exc |-> "", none |-> TRUE, info |-> NoInfo]
Raises(exc) == [exc |-> exc, none |-> FALSE, info |-> NoInfo]
NoResult == [exc |-> "", none |-> FALSE, info |-> NoInfo]

\* _from_records with the bug of passing array_oid and oid in the other order
RangeInfo_from_records_swapped(recs) ==
    IF recs = <<>> THEN ReturnsNone
    ELSE IF Len(recs) > 1 THEN Raises("ProgrammingError")
    ELSE Returns(RangeInfo_new(recs[1][1], recs[1][3], recs[1][2], recs[1][4]))

\* _from_records with the bug of taking the first of several rows
RangeInfo_from_records_first_row(recs) ==
    IF recs = <<>> THEN ReturnsNone
    ELSE Returns(RangeInfo_new(recs[1][1], recs[1][2], recs[1][3], recs[1][4]))

RangeInfo_from_records(recs) ==
    IF recs = <<>> THEN ReturnsNone
    ELSE IF Len(recs) > 1 THEN Raises("ProgrammingError")
    ELSE Returns(RangeInfo_new(recs[1][1], recs[1][2], recs[1][3], recs[1][4]))

\* a resolution call: the statement it is at, the rows it fetched, the
\* collaborator calls it has made, and how it ended
NewCall == [pc |-> "cursor", recs |-> <<>>, trace |-> <<>>, result |-> NoResult]
IdleCall == [pc |-> "idle", recs |-> <<>>, trace |-> <<>>, result |-> NoResult]

Ended(cl, result) == [cl EXCEPT !.pc = "done", !.result = result]

\* fetch with the bug of running the query again when execute fails
RangeInfo_fetch_retries(cl, ok, rows) ==
    CASE cl.pc = "cursor" ->
            IF ok THEN [cl EXCEPT !.pc = "execute", !.trace = Append(@, "cursor")]
            ELSE Ended([cl EXCEPT !.trace = Append(@, "cursor")], Raises("Error"))
      [] cl.pc = "execute" ->
            IF ok \/ Len(cl.trace) < 3
            THEN [cl EXCEPT !.pc = IF ok THEN "fetchall" ELSE "execute",
                            !.trace = Append(@, "execute")]
            ELSE Ended([cl EXCEPT !.trace = Append(@, "execute")], Raises("Error"))
      [] cl.pc = "fetchall" ->
            IF ok THEN [cl EXCEPT !.pc = "validate", !.recs = rows,
                                  !.trace = Append(@, "fetchall")]
            ELSE Ended([cl EXCEPT !.trace = Append(@, "fetchall")], Raises("Error"))
      [] cl.pc = "validate" ->
            Ended([cl EXCEPT !.trace = Append(@, "validate")],
                  RangeInfo_from_records(cl.recs))

\* RangeInfo.fetch, one statement: conn.cursor(), cur.execute(),
\* cur.fetchall(), return cls._from_records(recs).  ok: the collaborator
\* returns (else it raises); rows: what fetchall returns
RangeInfo_fetch(cl, ok, rows) ==
    CASE cl.pc = "cursor" ->
            IF ok THEN [cl EXCEPT !.pc = "execute", !.trace = Append(@, "cursor")]
            ELSE Ended([cl EXCEPT !.trace = Append(@, "cursor")], Raises("Error"))
      [] cl.pc = "execute" ->
            IF ok THEN [cl EXCEPT !.pc = "fetchall", !.trace = Append(@, "execute")]
            ELSE Ended([cl EXCEPT !.trace = Append(@, "execute")], Raises("Error"))
      [] cl.pc = "fetchall" ->
            IF ok THEN [cl EXCEPT !.pc = "validate", !.recs = rows,
                                  !.trace = Append(@, "fetchall")]
            ELSE Ended([cl EXCEPT !.trace = Append(@, "fetchall")], Raises("Error"))
      [] cl.pc = "validate" ->
            Ended([cl EXCEPT !.trace = Append(@, "validate")],
                  RangeInfo_from_records(cl.recs))

\* RangeInfo.fetch_async up to its next await: the collaborator is called
\* and the coroutine is suspended on it
RangeInfo_fetch_async_call(cl) ==
    CASE cl.pc = "cursor" ->
            [cl EXCEPT !.pc = "await_cursor", !.trace = Append(@, "cursor")]
      [] cl.pc = "execute" ->
            [cl EXCEPT !.pc = "await_execute", !.trace = Append(@, "execute")]
      [] cl.pc = "fetchall" ->
            [cl EXCEPT !.pc = "await_fetchall", !.trace = Append(@, "fetchall")]
      [] cl.pc = "validate" ->
            Ended([cl EXCEPT !.trace = Append(@, "validate")],
                  RangeInfo_from_records(cl.recs))

\* RangeInfo.fetch_async resumed from its await: with the awaited value, or
\* with the exception the collaborator raised or the CancelledError of a
\* cancellation thrown into it
RangeInfo_fetch_async_resume(cl, exc, rows) ==
    IF exc # "" THEN Ended(cl, Raises(exc))
    ELSE CASE cl.pc = "await_cursor" -> [cl EXCEPT !.pc = "execute"]
           [] cl.pc = "await_execute" -> [cl EXCEPT !.pc = "fetchall"]
           [] cl.pc = "await_fetchall" -> [cl EXCEPT !.pc = "validate", !.recs = rows]

\* the registry of an adaptation context: oid -> loader class
NoLoader == [kind |-> "none", name |-> "", sub |-> 0]

Title(name) == CASE name = "r1" -> "R1" [] name = "r2" -> "R2"

\* Loader.register(oid, context)
register_loader(reg, ctx, oid, loader) == [reg EXCEPT ![ctx][oid] = loader]

\* array.register(array_oid, base_oid, context, name)
array_register(reg, ctx, array_oid, base_oid, name) ==
    register_loader(reg, ctx, array_oid,
                    [kind |-> "array", name |-> Title(name), sub |-> base_oid])

\* register with the bug of starting the context's map afresh
RangeInfo_register_resets(info, ctx, reg) ==
    LET loader == [kind |-> "range", name |-> Title(info.name),
                   sub |-> info.range_subtype]
        reg0 == [reg EXCEPT ![ctx] = [o \in DOMAIN reg[ctx] |-> NoLoader]]
        reg1 == register_loader(reg0, ctx, info.oid, loader)
    IN  IF info.array_oid # 0
        THEN array_register(reg1, ctx, info.array_oid, info.oid, info.name)
        ELSE reg1

\* RangeInfo.register(context)
RangeInfo_register(info, ctx, reg) ==
    LET loader == [kind |-> "range", name |-> Title(info.name),
                   sub |-> info.range_subtype]
        reg1 == register_loader(reg, ctx, info.oid, loader)
    IN  IF info.array_oid # 0
        THEN array_register(reg1, ctx, info.array_oid, info.oid, info.name)
        ELSE reg1

(***************************************************************************)
(* Operations on the Range the program holds.  Every operation leaves in   *)
(* ret what it was called with and what it returned or raised.             *)
(***************************************************************************)
NoWire == [data |-> <<>>, src |-> NoObj, none |-> TRUE]

othersIdle == UNCHANGED <<etype, catalog, dumpers, calls, returned, registry>>

\* r = Range(lower, upper, bounds, empty): r is bound once, and stays
\* unbound when the constructor raises
Construct(lower, upper, bounds, empty) ==
    LET r == Range_init(lower, upper, bounds, empty)
    IN  /\ rng = NoObj
        /\ rng' = IF r.exc = "" THEN r.obj ELSE rng
        /\ ret' = [op |-> "init", lower |-> lower, upper |-> upper,
                   bounds |-> bounds, empty |-> empty,
                   exc |-> r.exc, obj |-> r.obj]
        /\ UNCHANGED wire
        /\ othersIdle

\* r.lower, r.upper
ReadBound(name) ==
    /\ rng # NoObj
    /\ ret' = [op |-> "bound", name |-> name,
               v |-> IF name = "lower" THEN Range_lower(rng) ELSE Range_upper(rng)]
    /\ UNCHANGED <<rng, wire>>
    /\ othersIdle

FlagNames == {"isempty", "lower_inf", "upper_inf", "lower_inc", "upper_inc", "bool"}

\* r.isempty, r.lower_inf, r.upper_inf, r.lower_inc, r.upper_inc, bool(r)
ReadFlag(name) ==
    /\ rng # NoObj
    /\ ret' = [op |-> "flag", name |-> name,
               b |-> CASE name = "isempty" -> Range_isempty(rng)
                       [] name = "lower_inf" -> Range_lower_inf(rng)
                       [] name = "upper_inf" -> Range_upper_inf(rng)
                       [] name = "lower_inc" -> Range_lower_inc(rng)
                       [] name = "upper_inc" -> Range_upper_inc(rng)
                       [] name = "bool" -> Range_bool(rng)]
    /\ UNCHANGED <<rng, wire>>
    /\ othersIdle

\* x in r
Contains(x) ==
    /\ rng # NoObj
    /\ ret' = [op |-> "contains", x |-> x, b |-> Range_contains(rng, x)]
    /\ UNCHANGED <<rng, wire>>
    /\ othersIdle

\* r == other, r != other, r < other, r <= other, r > other, r >= other
Compare(other) ==
    /\ rng # NoObj
    /\ ret' = [op |-> "compare", other |-> other,
               eq |-> Range_eq(rng, other), ne |-> Range_ne(rng, other),
               lt |-> Range_lt(rng, other), le |-> Range_le(rng, other),
               gt |-> Range_gt(rng, other), ge |-> Range_ge(rng, other)]
    /\ UNCHANGED <<rng, wire>>
    /\ othersIdle

\* hash(r)
Hash ==
    /\ rng # NoObj
    /\ ret' = [op |-> "hash", h |-> Range_hash(rng)]
    /\ UNCHANGED <<rng, wire>>
    /\ othersIdle

\* r = pickle.loads(pickle.dumps(r))
Pickle ==
    /\ rng # NoObj
    /\ rng' = Range_setstate(Range_getstate(rng))
    /\ ret' = [op |-> "pickle", state |-> Range_getstate(rng)]
    /\ UNCHANGED wire
    /\ othersIdle

\* RangeDumper.dump(r), nothing sent
Dump ==
    /\ rng # NoObj
    /\ ret' = [op |-> "dump", data |-> RangeDumper_dump(rng)]
    /\ UNCHANGED <<rng, wire>>
    /\ othersIdle

\* the dumped range goes to the server, which sends it back as it is
Send ==
    /\ rng # NoObj
    /\ wire = NoWire
    /\ wire' = [data |-> RangeDumper_dump(rng), src |-> rng, none |-> FALSE]
    /\ ret' = [op |-> "send", data |-> RangeDumper_dump(rng)]
    /\ UNCHANGED rng
    /\ othersIdle

\* the payloads a server (or a broken one) may send for a range column
Prefixes == {<<>>, <<"[">>, <<"(">>, <<"]">>, <<"1">>}
Suffixes == {<<>>, <<"]">>, <<")">>, <<"(">>, <<"1">>}
InteriorBytes == {",", "1", "\""}

RECURSIVE Interiors(_)
Interiors(n) ==
    IF n = 0 THEN {<<>>}
    ELSE LET shorter == Interiors(n - 1)
         IN  shorter \cup {Append(i, c) : i \in {j \in shorter : Len(j) = n - 1},
                                          c \in InteriorBytes}

Payloads ==
    {EmptyLiteral} \cup
    {p \o i \o q : p \in Prefixes, i \in Interiors(MaxInterior), q \in Suffixes}

\* RangeLoader.load(data) on the bytes in flight, by the loader whose
\* subtype_oid is the oid of the element type
Load ==
    /\ wire # NoWire
    /\ LET r == RangeLoader_load(etype, wire.data)
       IN  ret' = [op |-> "load", data |-> wire.data, src |-> wire.src,
                   exc |-> r.exc, obj |-> r.obj]
    /\ wire' = NoWire
    /\ UNCHANGED rng
    /\ othersIdle

(***************************************************************************)
(* The dumper of a Range is resolved: get_key, then upgrade.               *)
(***************************************************************************)
GetKey ==
    /\ ret' = [op |-> "get_key", key |-> RangeDumper_get_key(dumpers, rng)]
    /\ UNCHANGED <<etype, rng, wire, catalog, dumpers, calls, returned, registry>>

Upgrade ==
    /\ ret' = [op |-> "upgrade", dumper |-> RangeDumper_upgrade(dumpers, catalog, rng)]
    /\ UNCHANGED <<etype, rng, wire, catalog, dumpers, calls, returned, registry>>

(***************************************************************************)
(* Resolution calls and registration.                                      *)
(***************************************************************************)
CallIds == {"fetch", "fetch_async"}
Contexts == {"global", "conn"}

\* rows the catalog query may return: (name, oid, array_oid, range_subtype)
CatalogRows == {<<"r1", 101, 102, 23>>, <<"r2", 101, 0, 1082>>}
RegOids == {101, 102}

RECURSIVE RowSeqs(_)
RowSeqs(n) ==
    IF n = 0 THEN {<<>>}
    ELSE LET shorter == RowSeqs(n - 1)
         IN  shorter \cup {Append(q, r) : q \in {x \in shorter : Len(x) = n - 1},
                                          r \in CatalogRows}

\* the RangeInfo a call that has just ended returned, if any
Produced(cl) ==
    IF cl.pc = "done" /\ cl.result.info # NoInfo THEN {cl.result.info} ELSE {}

infoFrame == UNCHANGED <<etype, rng, wire, ret, catalog, dumpers>>

\* RangeInfo.fetch(conn, name) / RangeInfo.fetch_async(conn, name) is called
StartCall(c) ==
    /\ calls[c].pc \in {"idle", "done"}
    /\ calls' = [calls EXCEPT ![c] = NewCall]
    /\ UNCHANGED <<returned, registry>>
    /\ infoFrame

\* fetch runs its next statement
FetchStep(ok, rows) ==
    /\ calls["fetch"].pc \in {"cursor", "execute", "fetchall", "validate"}
    /\ calls["fetch"].pc = "validate" => ok
    /\ (calls["fetch"].pc # "fetchall" \/ ~ok) => rows = <<>>
    /\ calls' = [calls EXCEPT !["fetch"] = RangeInfo_fetch(@, ok, rows)]
    /\ returned' = returned \cup Produced(calls'["fetch"])
    /\ UNCHANGED registry
    /\ infoFrame

\* fetch_async runs to its next await, or to its return
AsyncCall ==
    /\ calls["fetch_async"].pc \in {"cursor", "execute", "fetchall", "validate"}
    /\ calls' = [calls EXCEPT !["fetch_async"] = RangeInfo_fetch_async_call(@)]
    /\ returned' = returned \cup Produced(calls'["fetch_async"])
    /\ UNCHANGED registry
    /\ infoFrame

\* the awaited collaborator call of fetch_async completes or raises
AsyncResume(exc, rows) ==
    /\ calls["fetch_async"].pc \in {"await_cursor", "await_execute", "await_fetchall"}
    /\ (calls["fetch_async"].pc # "await_fetchall" \/ exc # "") => rows = <<>>
    /\ calls' = [calls EXCEPT
                    !["fetch_async"] = RangeInfo_fetch_async_resume(@, exc, rows)]
    /\ returned' = returned \cup Produced(calls'["fetch_async"])
    /\ UNCHANGED registry
    /\ infoFrame

\* the task running fetch_async is cancelled while it is suspended
AsyncCancel ==
    /\ calls["fetch_async"].pc \in {"await_cursor", "await_execute", "await_fetchall"}
    /\ calls' = [calls EXCEPT
                    !["fetch_async"] =
                        RangeInfo_fetch_async_resume(@, "CancelledError", <<>>)]
    /\ returned' = returned \cup Produced(calls'["fetch_async"])
    /\ UNCHANGED registry
    /\ infoFrame

\* info.register(context) on a RangeInfo a resolution call returned
Register(info, ctx) ==
    /\ info \in returned
    /\ registry' = RangeInfo_register(info, ctx, registry)
    /\ UNCHANGED <<calls, returned>>
    /\ infoFrame

(***************************************************************************)
(* Specifications.                                                         *)
(***************************************************************************)
NoRet == [op |-> "start"]

InitIdle ==
    /\ rng = NoObj
    /\ wire = NoWire
    /\ ret = NoRet
    /\ catalog = <<>>
    /\ dumpers = <<>>
    /\ calls = <<>>
    /\ returned = {}
    /\ registry = <<>>

\* The Range value: construction and the operations reading it.
Init ==
    /\ etype \in ElemTypes
    /\ InitIdle

Next ==
    \/ \E l \in Bound(etype), u \in Bound(etype), b \in BoundsArgs, e \in BOOLEAN :
          Construct(l, u, b, e)
    \/ \E name \in {"lower", "upper"} : ReadBound(name)
    \/ \E name \in FlagNames : ReadFlag(name)
    \/ \E x \in ElemsOf(etype) : Contains(x)
    \/ \E other \in RangeValues(etype) : Compare(other)
    \/ Hash
    \/ Pickle
    \/ Dump

Spec == Init /\ [][Next]_vars

\* Dump a range, then load what the server sends back.
InitCodec ==
    /\ etype \in {"int", "str"}
    /\ rng \in RangeValues(etype)
    /\ wire = NoWire
    /\ ret = NoRet
    /\ catalog = <<>>
    /\ dumpers = <<>>
    /\ calls = <<>>
    /\ returned = {}
    /\ registry = <<>>

NextCodec ==
    \/ Send
    \/ Load

SpecCodec == InitCodec /\ [][NextCodec]_vars

\* Load a payload that arrives from the server.
InitLoad ==
    /\ etype \in {"int", "str"}
    /\ rng = NoObj
    /\ wire \in {[data |-> d, src |-> NoObj, none |-> FALSE] : d \in Payloads}
    /\ ret = NoRet
    /\ catalog = <<>>
    /\ dumpers = <<>>
    /\ calls = <<>>
    /\ returned = {}
    /\ registry = <<>>

NextLoad == Load

SpecLoad == InitLoad /\ [][NextLoad]_vars

(***************************************************************************)
(* Properties.  What the documentation says is written here on its own,    *)
(* without the operators that model the code.                              *)
(***************************************************************************)
FourFlags == {<<"[", ")">>, <<"(", "]">>, <<"(", ")">>, <<"[", "]">>}
EmptyMarker == <<>>
EmptyRange == [lower |-> None, upper |-> None, bounds |-> EmptyMarker]
MkRange(l, u, b) == [lower |-> l, upper |-> u, bounds |-> b]

ReadOps == {"bound", "flag", "contains", "compare", "hash", "dump"}

DataModelInv(r) ==
    IF r.bounds = EmptyMarker THEN r.lower = None /\ r.upper = None
    ELSE r.bounds \in FourFlags

\* C1: for each of the four bounds flags and present elements a <= b, loading
\* what RangeDumper.dump wrote for Range(a, b, f), with the loader of the
\* element type, returns a Range with the same lower, upper and bounds.
C1_RoundTripPresent ==
    (/\ ret.op = "load"
     /\ ret.src # NoObj
     /\ ret.src.bounds \in FourFlags
     /\ ret.src.lower # None
     /\ ret.src.upper # None
     /\ ElemLe(ret.src.lower, ret.src.upper))
    => /\ ret.exc = ""
       /\ ret.obj # NoObj
       /\ ret.obj.lower = ret.src.lower
       /\ ret.obj.upper = ret.src.upper
       /\ ret.obj.bounds = ret.src.bounds

\* a str range whose elements need quoting and escaping has come back
C1_Witness ==
    /\ ret.op = "load"
    /\ ret.src # NoObj
    /\ ret.src.bounds = <<"(", "]">>
    /\ ret.src.lower = TextV(<<",", "\"">>)
    /\ ret.src.upper = TextV(<<"a">>)
    /\ ret.obj = ret.src

\* C2 as stated: load(dump(r)) equals r for every Range r.
C2_Lossless ==
    (ret.op = "load" /\ ret.src # NoObj)
    => (ret.exc = "" /\ ret.obj = ret.src)

\* the flags a range comes back with: an absent side comes back exclusive
NormalBounds(r) ==
    IF r.bounds = EmptyMarker THEN EmptyMarker
    ELSE <<IF r.lower = None THEN "(" ELSE r.bounds[1],
           IF r.upper = None THEN ")" ELSE r.bounds[2]>>

\* C2 amended: load(dump(r)) has the lower and upper of r and, on every side
\* whose bound is present, the flag of r; the flag of an absent side comes
\* back exclusive.  So load(dump(r)) equals r when r is empty or every absent
\* side of r is flagged exclusive.
C2_LosslessUpToAbsentFlags ==
    (ret.op = "load" /\ ret.src # NoObj)
    => /\ ret.exc = ""
       /\ ret.obj = MkRange(ret.src.lower, ret.src.upper, NormalBounds(ret.src))
       /\ (ret.src.bounds = NormalBounds(ret.src) => ret.obj = ret.src)

\* Range(None, x, "[)") has come back as Range(None, x, "()")
C2_Witness ==
    /\ ret.op = "load"
    /\ ret.src # NoObj
    /\ ret.src.lower = None
    /\ ret.src.upper # None
    /\ ret.src.bounds = <<"[", ")">>
    /\ ret.exc = ""
    /\ ret.obj.bounds = <<"(", ")">>

C3_Constructed ==
    /\ rng # NoObj => DataModelInv(rng)
    /\ ret.op = "init" =>
        /\ (~ret.empty /\ ret.bounds \notin FourFlags)
              => (ret.exc = "ValueError" /\ ret.obj = NoObj /\ rng = NoObj)
        /\ ret.empty => (ret.exc = "" /\ ret.obj = EmptyRange /\ rng = EmptyRange)
        /\ (~ret.empty /\ ret.bounds \in FourFlags)
              => /\ ret.exc = ""
                 /\ ret.obj = MkRange(ret.lower, ret.upper, ret.bounds)
                 /\ rng = ret.obj

\* C3: Range(lower, upper, bounds, empty) raises ValueError and constructs
\* nothing when empty is false and bounds is none of the four flags; with
\* empty true the object has lower None, upper None and the empty marker
\* whatever was passed; otherwise its bounds is one of the four flags.  No
\* read operation (properties, membership, comparisons, hash, truthiness,
\* dump) changes the object, so the invariant holds in every state.
C3_RangeInvariant ==
    /\ []C3_Constructed
    /\ [][ret'.op \in ReadOps => rng' = rng]_vars

\* empty=True was passed with a present lower and an invalid bounds string
C3_Witness ==
    /\ ret.op = "init"
    /\ ret.empty
    /\ ret.lower # None
    /\ ret.bounds \notin FourFlags
    /\ rng = EmptyRange

\* None is less than any present value
OptLess(x, y) == x # y /\ (x = None \/ (y # None /\ ElemLt(x, y)))

\* lower, then upper, then bounds, decided at the first field that differs
FieldwiseLess(a, b) ==
    \/ OptLess(a.lower, b.lower)
    \/ a.lower = b.lower /\ OptLess(a.upper, b.upper)
    \/ a.lower = b.lower /\ a.upper = b.upper /\ StrLt(a.bounds, b.bounds)

OneOf(p, q, r) == (p /\ ~q /\ ~r) \/ (~p /\ q /\ ~r) \/ (~p /\ ~q /\ r)

\* C4: __lt__ compares lower, then upper, then bounds, deciding at the first
\* field that differs, with None less than any present value.  It is a
\* strict total order: irreflexive, transitive, exactly one of a < b,
\* a == b, b < a holds, and a <= b (a >= b) iff a < b (a > b) or a == b.
\* Range(None, 5, "[)") < Range(1, 5, "[)") and not the converse.
C4_StrictTotalOrder ==
    /\ Range_lt(MkRange(None, IntV(5), <<"[", ")">>),
                MkRange(IntV(1), IntV(5), <<"[", ")">>))
    /\ ~Range_lt(MkRange(IntV(1), IntV(5), <<"[", ")">>),
                 MkRange(None, IntV(5), <<"[", ")">>))
    /\ ret.op = "compare" =>
        /\ ret.lt = FieldwiseLess(rng, ret.other)
        /\ ret.gt = FieldwiseLess(ret.other, rng)
        /\ ret.eq = (rng = ret.other)
        /\ ret.ne = ~ret.eq
        /\ ~Range_lt(rng, rng)
        /\ OneOf(ret.lt, ret.eq, ret.gt)
        /\ ret.le = (ret.lt \/ ret.eq)
        /\ ret.ge = (ret.gt \/ ret.eq)
        /\ \A c \in RangeValues(etype) :
              (ret.lt /\ Range_lt(ret.other, c)) => Range_lt(rng, c)

\* an absent lower was compared with a present one, the rest being equal
C4_Witness ==
    /\ ret.op = "compare"
    /\ rng.lower = None
    /\ ret.other.lower # None
    /\ rng.upper = ret.other.upper
    /\ rng.upper # None
    /\ rng.bounds = ret.other.bounds
    /\ ret.lt
    /\ ~ret.gt

Member(r, x) ==
    /\ r.bounds # EmptyMarker
    /\ (r.lower = None \/ ElemLt(r.lower, x) \/ (x = r.lower /\ r.bounds[1] = "["))
    /\ (r.upper = None \/ ElemLt(x, r.upper) \/ (x = r.upper /\ r.bounds[2] = "]"))

\* C5: x in r is false when r is empty; otherwise it is true iff (lower is
\* None, or x > lower, or x == lower and the lower flag is "[") and (upper
\* is None, or x < upper, or x == upper and the upper flag is "]").  For
\* Range(1, 10, "[)") 1 is a member and 10 and 0 are not; for
\* Range(1, 10, "[]") 10 is a member.
C5_Membership ==
    /\ Range_contains(MkRange(IntV(1), IntV(10), <<"[", ")">>), IntV(1))
    /\ ~Range_contains(MkRange(IntV(1), IntV(10), <<"[", ")">>), IntV(10))
    /\ ~Range_contains(MkRange(IntV(1), IntV(10), <<"[", ")">>), IntV(0))
    /\ Range_contains(MkRange(IntV(1), IntV(10), <<"[", "]">>), IntV(10))
    /\ ret.op = "contains" => (ret.b = Member(rng, ret.x))

\* the upper bound of a range closed above was found to be a member
C5_Witness ==
    /\ ret.op = "contains"
    /\ rng.bounds = <<"(", "]">>
    /\ rng.lower # None
    /\ ret.x = rng.upper
    /\ ElemLt(rng.lower, ret.x)
    /\ ret.b

\* the fields the record parser finds in the interior of a payload
Fields(data) == parse_record(SubSeq(data, 2, Len(data) - 1)).toks

Malformed(data) ==
    /\ data # EmptyLiteral
    /\ \/ data = <<>>
       \/ data[1] \notin {"[", "("}
       \/ data[Len(data)] \notin {"]", ")"}
       \/ Len(Fields(data)) # 2

\* C7 as stated: load on input that is not b"empty" and is not a well-formed
\* range (first byte not "[" or "(", last byte not "]" or ")", or an
\* interior that does not parse to exactly two fields) fails with a
\* data-format error and returns no Range.
C7_MalformedIsDataError ==
    (ret.op = "load" /\ Malformed(ret.data))
    => (ret.exc = "DataError" /\ ret.obj = NoObj)

\* what does hold of malformed input: load raises, it returns no Range
MalformedRaises ==
    (ret.op = "load" /\ Malformed(ret.data))
    => (ret.exc # "" /\ ret.obj = NoObj)

(***************************************************************************)
(* Specifications of the dumper resolution and of the catalog lookup.      *)
(***************************************************************************)
InitUpgrade ==
    /\ etype \in ElemTypes
    /\ rng \in RangeValues(etype)
    /\ wire = NoWire
    /\ ret = NoRet
    /\ catalog \in Catalogs
    /\ dumpers \in DumperSets
    /\ calls = <<>>
    /\ returned = {}
    /\ registry = <<>>

NextUpgrade ==
    \/ GetKey
    \/ Upgrade

SpecUpgrade == InitUpgrade /\ [][NextUpgrade]_vars

InitInfo ==
    /\ etype = "int"
    /\ rng = NoObj
    /\ wire = NoWire
    /\ ret = NoRet
    /\ catalog = <<>>
    /\ dumpers = <<>>
    /\ calls = [c \in CallIds |-> IdleCall]
    /\ returned = {}
    /\ registry = [ctx \in Contexts |-> [o \in RegOids |-> NoLoader]]

NextInfo ==
    \/ \E c \in CallIds : StartCall(c)
    \/ \E ok \in BOOLEAN, rows \in RowSeqs(MaxRows) : FetchStep(ok, rows)
    \/ AsyncCall
    \/ \E exc \in {"", "Error"}, rows \in RowSeqs(MaxRows) : AsyncResume(exc, rows)
    \/ AsyncCancel
    \/ \E info \in returned, ctx \in Contexts : Register(info, ctx)

SpecInfo == InitInfo /\ [][NextInfo]_vars

(***************************************************************************)
(* Properties of the dumper resolution and of the catalog lookup.          *)
(***************************************************************************)
\* the element upgrade looks at: lower if present, else upper
Representative(r) == IF r.lower # None THEN r.lower ELSE r.upper

RowInfo(row) ==
    [name |-> row[1], oid |-> row[2], array_oid |-> row[3], range_subtype |-> row[4]]

Expected(recs) ==
    IF Len(recs) = 0 THEN [exc |-> "", none |-> TRUE, info |-> NoInfo]
    ELSE IF Len(recs) > 1
    THEN [exc |-> "ProgrammingError", none |-> FALSE, info |-> NoInfo]
    ELSE [exc |-> "", none |-> FALSE, info |-> RowInfo(recs[1])]

\* the call got its rows and ran to its end
Completed(cl) ==
    cl.pc = "done" /\ \E k \in 1..Len(cl.trace) : cl.trace[k] = "validate"

\* C8: fetch and fetch_async give the same outcome for the same rows: None for
\* no row, ProgrammingError for more than one, and for one row a RangeInfo
\* whose name, oid, array_oid and subtype are the four columns in order.
C8_FetchSubstitutable ==
    /\ \A c \in CallIds :
          Completed(calls[c]) => calls[c].result = Expected(calls[c].recs)
    /\ (/\ Completed(calls["fetch"])
        /\ Completed(calls["fetch_async"])
        /\ calls["fetch"].recs = calls["fetch_async"].recs)
       => calls["fetch"].result = calls["fetch_async"].result

\* both calls got the one row of r1 and returned its RangeInfo
C8_Witness ==
    /\ Completed(calls["fetch"])
    /\ Completed(calls["fetch_async"])
    /\ calls["fetch"].recs = <<(<<"r1", 101, 102, 23>>)>>
    /\ calls["fetch_async"].recs = calls["fetch"].recs
    /\ calls["fetch_async"].result.info.array_oid = 102
    /\ calls["fetch"].result.info.range_subtype = 23

Statements == <<"cursor", "execute", "fetchall", "validate">>

IsPrefix(p, q) == Len(p) <= Len(q) /\ p = SubSeq(q, 1, Len(p))

\* C9: within one call the query is executed at most once and its result is
\* fetched once, after it, in the order cursor, execute, fetchall, validate;
\* the query is never issued again, whatever execute or fetchall did.
C9_QueryOnce ==
    \A c \in CallIds :
        LET cl == calls[c]
        IN  /\ IsPrefix(cl.trace, Statements)
            /\ Cardinality({k \in 1..Len(cl.trace) : cl.trace[k] = "execute"}) <= 1
            /\ (cl.pc = "done" /\ cl.result.exc \notin {"Error", "CancelledError"})
                  => cl.trace = Statements

\* execute raised in one call and fetchall raised in the other
C9_Witness ==
    /\ calls["fetch"].pc = "done"
    /\ calls["fetch"].result.exc = "Error"
    /\ calls["fetch"].trace = <<"cursor", "execute">>
    /\ calls["fetch_async"].pc = "done"
    /\ calls["fetch_async"].result.exc = "Error"
    /\ calls["fetch_async"].trace = <<"cursor", "execute", "fetchall">>

C10_NothingPartial ==
    /\ \A c \in CallIds :
          (calls[c].pc = "done" /\ (calls[c].result.exc # "" \/ Len(calls[c].recs) # 1))
             => calls[c].result.info = NoInfo
    /\ \A c \in CallIds : calls[c].pc # "done" => calls[c].result.info = NoInfo
    /\ \A ctx \in Contexts, o \in RegOids :
          registry[ctx][o] # NoLoader =>
             \E info \in returned :
                \/ /\ registry[ctx][o].kind = "range"
                   /\ o = info.oid
                   /\ registry[ctx][o].sub = info.range_subtype
                \/ /\ registry[ctx][o].kind = "array"
                   /\ o = info.array_oid
                   /\ registry[ctx][o].sub = info.oid

C10_OnlyRegisterWrites ==
    /\ registry' # registry =>
          /\ calls' = calls
          /\ \E info \in returned, ctx \in Contexts :
                /\ registry'[ctx][info.oid].kind = "range"
                /\ registry'[ctx][info.oid].sub = info.range_subtype
                /\ \A x \in Contexts \ {ctx} : registry'[x] = registry[x]
    /\ returned' # returned =>
          \E c \in CallIds :
             /\ calls[c].pc = "validate"
             /\ calls'[c].pc = "done"
             /\ Len(calls[c].recs) = 1
             /\ returned' = returned \cup {RowInfo(calls[c].recs[1])}

\* C10: a resolution call that is cancelled while suspended on the catalog
\* round trip, or fails, or finds no row or several, produces no RangeInfo
\* and changes no registry; a loader is in a registry only after a call has
\* returned a validated RangeInfo and register() was called on it.
C10_AllOrNothing ==
    /\ []C10_NothingPartial
    /\ [][C10_OnlyRegisterWrites]_vars

\* fetch_async was cancelled while awaiting fetchall, after fetch had
\* returned a RangeInfo that is registered in the connection's context only
C10_Witness ==
    /\ calls["fetch_async"].pc = "done"
    /\ calls["fetch_async"].result.exc = "CancelledError"
    /\ calls["fetch_async"].trace = <<"cursor", "execute", "fetchall">>
    /\ calls["fetch"].pc = "done"
    /\ calls["fetch"].result.info # NoInfo
    /\ registry["conn"][101] # NoLoader
    /\ registry["global"][101] = NoLoader

(***************************************************************************)
(* Properties of register.                                                 *)
(***************************************************************************)
\* the oids register(info) writes: info.oid, and info.array_oid if non-zero
Written(info) ==
    {info.oid} \cup (IF info.array_oid # 0 THEN {info.array_oid} ELSE {})

\* what register(info, ctx) leaves in the registry
Registered(info, ctx) ==
    /\ registry'[ctx][info.oid].kind = "range"
    /\ registry'[ctx][info.oid].sub = info.range_subtype
    /\ info.array_oid # 0 =>
          /\ registry'[ctx][info.array_oid].kind = "array"
          /\ registry'[ctx][info.array_oid].sub = info.oid
    /\ dumpers' = dumpers

\* C11 as stated: register maps info.oid to a range loader of the info's
\* subtype, array_oid to an array loader over that oid iff array_oid is not
\* zero, adds no dumper, and removes or changes no entry that was present
\* before the call, two calls for one oid with different metadata included.
C11_InsertOnly ==
    [][registry' # registry =>
          /\ \E info \in returned, ctx \in Contexts : Registered(info, ctx)
          /\ \A x \in Contexts, o \in RegOids :
                registry[x][o] # NoLoader => registry'[x][o] = registry[x][o]]_vars

\* C11: register maps info.oid to a range loader of the info's subtype,
\* array_oid to an array loader over that oid when array_oid is not zero,
\* adds no dumper, removes no entry, and changes no entry but those of
\* info.oid and of a non-zero info.array_oid in the context given: an entry
\* already present for one of these is replaced (the last write wins).
C11_LastWriteWins ==
    [][registry' # registry =>
          /\ \E info \in returned, ctx \in Contexts :
                /\ Registered(info, ctx)
                /\ \A x \in Contexts, o \in RegOids :
                      (x # ctx \/ o \notin Written(info))
                         => registry'[x][o] = registry[x][o]
          /\ \A x \in Contexts, o \in RegOids :
                registry[x][o] # NoLoader => registry'[x][o] # NoLoader]_vars

\* r1 and then r2, which has the same oid, another subtype and no array,
\* were registered in the connection's context: the range loader is that of
\* r2 and the array loader is still that of r1
C11_Witness ==
    /\ registry["conn"][101].kind = "range"
    /\ registry["conn"][101].name = "R2"
    /\ registry["conn"][101].sub = 1082
    /\ registry["conn"][102].kind = "array"
    /\ registry["conn"][102].sub = 101
    /\ registry["global"][101] = NoLoader

(***************************************************************************)
(* Properties of the two-phase dumper resolution.                          *)
(***************************************************************************)
\* the ranges a context may be given to dump, of any element type
AllRanges == UNION {RangeValues(ty) : ty \in ElemTypes}

\* the class of the element dumper a range dumper carries, if any
SubDumperClass(d) ==
    IF d.sub_dumper = NoDumper THEN "" ELSE d.sub_dumper.cls

====
